---------------------------- MODULE Spec2Model ----------------------------
(***************************************************************************)
(* The self-assessment workflow of                                         *)
(* common/lib/xmodule/xmodule/self_assessment_module.py:                   *)
(* SelfAssessmentModule.handle_ajax and the three handlers it dispatches   *)
(* to (save_answer, save_assessment, save_hint), the view helpers they     *)
(* call, and the operations they inherit from openendedchild.OpenEndedChild*)
(* (history, change_state, _allow_reset, reset, get_progress).             *)
(*                                                                         *)
(* A Python dict is a function whose DOMAIN is the set of keys present.    *)
(* The text of an assessment is a sequence of one-character strings, so    *)
(* that int() is computed from the characters.                             *)
(***************************************************************************)
EXTENDS Integers, Sequences, FiniteSets, TLC

VARIABLES
    state,          \* self.state
    attempts,       \* self.attempts
    history,        \* self.history: a sequence of dicts
    max_attempts,   \* self.max_attempts
    _max_score,     \* self._max_score
    req,            \* the last call made on the instance
    ret             \* what that call returned

vars == <<state, attempts, history, max_attempts, _max_score, req, ret>>

\* ------------------------------------------------------------------ bounds

\* Largest max_attempts a problem definition is given.
MaxMaxAttempts == 2

\* The values of max_score a problem definition is given.
MaxScores == {1, 3}

\* ------------------------------------------------------------------ states

INITIAL == "initial"

ASSESSING == "assessing"

POST_ASSESSMENT == "post_assessment"

DONE == "done"

States == {INITIAL, ASSESSING, POST_ASSESSMENT, DONE}

\* ------------------------------------------------------------------- dicts

EmptyDict == [k \in {} |-> TRUE]

\* d[k] = v
Put(d, k, v) == [x \in (DOMAIN d) \cup {k} |-> IF x = k THEN v ELSE d[x]]

\* d.update(e)
Update(d, e) ==
    [x \in (DOMAIN d) \cup (DOMAIN e) |-> IF x \in DOMAIN e THEN e[x] ELSE d[x]]

\* No exception was raised.
NoExc == "None"

\* d[k] of a request mapping raises KeyError when k is absent.
HasKey(d, k) == k \in DOMAIN d

\* ------------------------------------------------------------------ inputs

Answers == {"foo", "bar"}

Hints == {"try again"}

\* Texts sent as the assessment: "3", "1", "-1", " 3", "abc" and "".
Assessments ==
    { <<"3">>, <<"1">>, <<"-", "1">>, <<" ", "3">>, <<"a", "b", "c">>, <<>> }

AnswerPayloads == {EmptyDict} \cup {[student_answer |-> a] : a \in Answers}

AssessmentPayloads == {EmptyDict} \cup {[assessment |-> t] : t \in Assessments}

HintPayloads == {EmptyDict} \cup {[hint |-> h] : h \in Hints}

\* Action names that are not keys of the handlers table.
UnknownDispatches == {"reset", "save_hint"}

\* ------------------------------------------------------------------- int()

Whitespace == {" ", "\t", "\n"}

DigitChars == {"0", "1", "2", "3", "4", "5", "6", "7", "8", "9"}

DigitVal(c) ==
    CASE c = "0" -> 0 [] c = "1" -> 1 [] c = "2" -> 2 [] c = "3" -> 3
      [] c = "4" -> 4 [] c = "5" -> 5 [] c = "6" -> 6 [] c = "7" -> 7
      [] c = "8" -> 8 [] c = "9" -> 9

RECURSIVE LStrip(_)
LStrip(s) ==
    IF s # <<>> /\ Head(s) \in Whitespace THEN LStrip(Tail(s)) ELSE s

RECURSIVE RStrip(_)
RStrip(s) ==
    IF s # <<>> /\ s[Len(s)] \in Whitespace
    THEN RStrip(SubSeq(s, 1, Len(s) - 1))
    ELSE s

RECURSIVE DigitsValue(_)
DigitsValue(s) ==
    IF s = <<>> THEN 0
    ELSE 10 * DigitsValue(SubSeq(s, 1, Len(s) - 1)) + DigitVal(s[Len(s)])

\* int(text): surrounding whitespace is dropped, one sign is allowed, and
\* what is left must be one or more decimal digits; anything else raises
\* ValueError.
int(text) ==
    LET t == RStrip(LStrip(text))
        signed == t # <<>> /\ Head(t) \in {"+", "-"}
        digits == IF signed THEN Tail(t) ELSE t
        ok == digits # <<>> /\ \A i \in 1..Len(digits) : digits[i] \in DigitChars
    IN  IF ~ok THEN [exc |-> "ValueError", val |-> 0]
        ELSE [exc |-> NoExc,
              val |-> IF signed /\ Head(t) = "-"
                      THEN 0 - DigitsValue(digits)
                      ELSE DigitsValue(digits)]

\* ------------------------------------------- the instance (OpenEndedChild)

\* The instance as the handlers see it.
Self ==
    [state |-> state, attempts |-> attempts, history |-> history,
     max_attempts |-> max_attempts, _max_score |-> _max_score]

\* history.append({'answer': answer}): score and hint are absent keys.
new_history_entry(self, answer) ==
    [self EXCEPT !.history = Append(@, [answer |-> answer])]

\* history[-1]['score'] = score
record_latest_score(self, score) ==
    [self EXCEPT !.history[Len(self.history)] = Put(@, "score", score)]

\* history[-1]['post_assessment'] = hint
record_latest_post_assessment(self, hint) ==
    [self EXCEPT !.history[Len(self.history)] = Put(@, "post_assessment", hint)]

\* The latest record's hint, or "none" (Python None) when absent.
latest_post_assessment(self) ==
    IF self.history = <<>> THEN [none |-> TRUE]
    ELSE IF HasKey(self.history[Len(self.history)], "post_assessment")
         THEN [none |-> FALSE,
               value |-> self.history[Len(self.history)].post_assessment]
         ELSE [none |-> TRUE]

change_state(self, new_state) == [self EXCEPT !.state = new_state]

max_score(self) == self._max_score

\* Can the module be reset?
_allow_reset(self) == self.state = DONE /\ self.attempts < self.max_attempts

\* The rejection of a call made in the wrong state; the payload is only
\* echoed for diagnosis.
out_of_sync_error(get) ==
    [success |-> FALSE, error |-> "The problem state got out-of-sync"]

\* reset: back to INITIAL with one more attempt used, the history kept;
\* refused when _allow_reset is false.
reset(self) ==
    IF _allow_reset(self)
    THEN [self |-> [change_state(self, INITIAL) EXCEPT !.attempts = @ + 1],
          exc |-> NoExc,
          d |-> [success |-> TRUE]]
    ELSE [self |-> self,
          exc |-> NoExc,
          d |-> [success |-> FALSE, error |-> "Reset is not allowed"]]

\* The progress of the instance, from its state and attempt count.
get_progress(self) ==
    [done |-> self.state = DONE,
     started |-> self.state # INITIAL \/ self.attempts > 0]

\* Progress.to_js_status_str
to_js_status_str(progress) ==
    IF progress.done THEN "done"
    ELSE IF progress.started THEN "in_progress"
    ELSE "none"

\* ------------------------------------------------------------------- views

\* The empty string a view returns when its section is hidden.
NoHtml == [template |-> "", context |-> EmptyDict]

\* get_rubric_html leaving the rubric editable in POST_ASSESSMENT.
get_rubric_html_EditableUntilDone(self) ==
    IF self.state = INITIAL THEN [exc |-> NoExc, html |-> NoHtml]
    ELSE IF self.state \in {ASSESSING, POST_ASSESSMENT}
    THEN [exc |-> NoExc,
          html |-> [template |-> "self_assessment_rubric.html",
                    context |-> [rubric |-> "rubric",
                                 max_score |-> self._max_score,
                                 read_only |-> FALSE]]]
    ELSE IF self.state = DONE
    THEN [exc |-> NoExc,
          html |-> [template |-> "self_assessment_rubric.html",
                    context |-> [rubric |-> "rubric",
                                 max_score |-> self._max_score,
                                 read_only |-> TRUE]]]
    ELSE [exc |-> "ValueError", html |-> NoHtml]

get_rubric_html(self) ==
    IF self.state = INITIAL THEN [exc |-> NoExc, html |-> NoHtml]
    ELSE IF self.state = ASSESSING
    THEN [exc |-> NoExc,
          html |-> [template |-> "self_assessment_rubric.html",
                    context |-> [rubric |-> "rubric",
                                 max_score |-> self._max_score,
                                 read_only |-> FALSE]]]
    ELSE IF self.state \in {POST_ASSESSMENT, DONE}
    THEN [exc |-> NoExc,
          html |-> [template |-> "self_assessment_rubric.html",
                    context |-> [rubric |-> "rubric",
                                 max_score |-> self._max_score,
                                 read_only |-> TRUE]]]
    ELSE [exc |-> "ValueError", html |-> NoHtml]

get_hint_html(self) ==
    IF self.state \in {INITIAL, ASSESSING} THEN [exc |-> NoExc, html |-> NoHtml]
    ELSE LET latest == latest_post_assessment(self)
             hint == IF self.state = DONE /\ ~latest.none
                     THEN latest.value
                     ELSE ""
         IN  IF self.state = POST_ASSESSMENT
             THEN [exc |-> NoExc,
                   html |-> [template |-> "self_assessment_hint.html",
                             context |-> [hint_prompt |-> "hintprompt",
                                          hint |-> hint,
                                          read_only |-> FALSE]]]
             ELSE IF self.state = DONE
             THEN [exc |-> NoExc,
                   html |-> [template |-> "self_assessment_hint.html",
                             context |-> [hint_prompt |-> "hintprompt",
                                          hint |-> hint,
                                          read_only |-> TRUE]]]
             ELSE [exc |-> "ValueError", html |-> NoHtml]

get_message_html(self) ==
    IF self.state # DONE THEN NoHtml
    ELSE [template |-> "save_message",
          context |-> [submit_message |-> "submitmessage"]]

\* The latest record's answer, or "none" (Python None) when absent.
latest_answer(self) ==
    IF self.history = <<>> THEN [none |-> TRUE]
    ELSE IF HasKey(self.history[Len(self.history)], "answer")
         THEN [none |-> FALSE,
               value |-> self.history[Len(self.history)].answer]
         ELSE [none |-> TRUE]

\* get_html: the context handed to the template; its entries are
\* evaluated in the order written, so the first view that raises ends it.
get_html(self) ==
    LET latest == latest_answer(self)
        previous_answer == IF self.state # INITIAL /\ ~latest.none
                           THEN latest.value
                           ELSE ""
        rubric == get_rubric_html(self)
        hint == get_hint_html(self)
    IN  IF rubric.exc # NoExc THEN [exc |-> rubric.exc, html |-> NoHtml]
        ELSE IF hint.exc # NoExc THEN [exc |-> hint.exc, html |-> NoHtml]
        ELSE [exc |-> NoExc,
              html |-> [template |-> "self_assessment_prompt.html",
                        context |-> [prompt |-> "prompt",
                                     previous_answer |-> previous_answer,
                                     initial_rubric |-> rubric.html,
                                     initial_hint |-> hint.html,
                                     initial_message |-> get_message_html(self),
                                     state |-> self.state,
                                     allow_reset |-> _allow_reset(self),
                                     child_type |-> "selfassessment"]]]

\* A handler that raised: no dict is returned.
Raised(self, exc) == [self |-> self, exc |-> exc, d |-> EmptyDict]

\* A handler that returned d.
Returned(self, d) == [self |-> self, exc |-> NoExc, d |-> d]

\* ---------------------------------------------------------------- handlers

\* save_answer with the attempt guard written >= instead of >.
save_answer_GuardAtLimit(self, get) ==
    IF self.attempts >= self.max_attempts
    THEN Returned(self, [success |-> FALSE, error |-> "Too many attempts."])
    ELSE IF self.state # INITIAL
    THEN Returned(self, out_of_sync_error(get))
    ELSE IF ~HasKey(get, "student_answer")
    THEN Raised(self, "KeyError")
    ELSE LET s1 == new_history_entry(self, get.student_answer)
             s2 == change_state(s1, ASSESSING)
             rubric == get_rubric_html(s2)
         IN  IF rubric.exc # NoExc
             THEN Raised(s2, rubric.exc)
             ELSE Returned(s2, [success |-> TRUE, rubric_html |-> rubric.html])

\* save_answer writing the answer over the latest record when there is one.
save_answer_Overwrites(self, get) ==
    IF self.attempts > self.max_attempts
    THEN Returned(self, [success |-> FALSE, error |-> "Too many attempts."])
    ELSE IF self.state # INITIAL
    THEN Returned(self, out_of_sync_error(get))
    ELSE IF ~HasKey(get, "student_answer")
    THEN Raised(self, "KeyError")
    ELSE LET s1 == IF self.history = <<>>
                   THEN new_history_entry(self, get.student_answer)
                   ELSE [self EXCEPT !.history[Len(self.history)] =
                                         [answer |-> get.student_answer]]
             s2 == change_state(s1, ASSESSING)
             rubric == get_rubric_html(s2)
         IN  IF rubric.exc # NoExc
             THEN Raised(s2, rubric.exc)
             ELSE Returned(s2, [success |-> TRUE, rubric_html |-> rubric.html])

\* save_answer checking the state before the attempt count.
save_answer_StateFirst(self, get) ==
    IF self.state # INITIAL
    THEN Returned(self, out_of_sync_error(get))
    ELSE IF self.attempts > self.max_attempts
    THEN Returned(self, [success |-> FALSE, error |-> "Too many attempts."])
    ELSE IF ~HasKey(get, "student_answer")
    THEN Raised(self, "KeyError")
    ELSE LET s1 == new_history_entry(self, get.student_answer)
             s2 == change_state(s1, ASSESSING)
             rubric == get_rubric_html(s2)
         IN  IF rubric.exc # NoExc
             THEN Raised(s2, rubric.exc)
             ELSE Returned(s2, [success |-> TRUE, rubric_html |-> rubric.html])

save_answer(self, get) ==
    IF self.attempts > self.max_attempts
    THEN Returned(self, [success |-> FALSE, error |-> "Too many attempts."])
    ELSE IF self.state # INITIAL
    THEN Returned(self, out_of_sync_error(get))
    ELSE IF ~HasKey(get, "student_answer")
    THEN Raised(self, "KeyError")
    ELSE LET s1 == new_history_entry(self, get.student_answer)
             s2 == change_state(s1, ASSESSING)
             rubric == get_rubric_html(s2)
         IN  IF rubric.exc # NoExc
             THEN Raised(s2, rubric.exc)
             ELSE Returned(s2, [success |-> TRUE, rubric_html |-> rubric.html])

\* save_assessment sending every score of at least max_score to DONE.
save_assessment_AtLeastMax(self, get) ==
    IF self.state # ASSESSING
    THEN Returned(self, out_of_sync_error(get))
    ELSE IF ~HasKey(get, "assessment")
    THEN Raised(self, "KeyError")
    ELSE LET score == int(get.assessment)
         IN  IF score.exc # NoExc
             THEN Returned(self, [success |-> FALSE,
                                  error |-> "Non-integer score value"])
             ELSE LET s1 == record_latest_score(self, score.val)
                      d == [success |-> TRUE]
                  IN  IF score.val >= max_score(s1)
                      THEN LET s2 == change_state(s1, DONE)
                               d1 == Put(d, "message_html", get_message_html(s2))
                               d2 == Put(d1, "allow_reset", _allow_reset(s2))
                           IN  Returned(s2, Put(d2, "state", s2.state))
                      ELSE LET s2 == change_state(s1, POST_ASSESSMENT)
                               hint == get_hint_html(s2)
                           IN  IF hint.exc # NoExc
                               THEN Raised(s2, hint.exc)
                               ELSE Returned(s2,
                                        Put(Put(d, "hint_html", hint.html),
                                            "state", s2.state))

\* save_assessment taking a text that is no integer as the score 0.
save_assessment_DefaultZero(self, get) ==
    IF self.state # ASSESSING
    THEN Returned(self, out_of_sync_error(get))
    ELSE IF ~HasKey(get, "assessment")
    THEN Raised(self, "KeyError")
    ELSE LET parsed == int(get.assessment)
             score == IF parsed.exc # NoExc
                      THEN [exc |-> NoExc, val |-> 0]
                      ELSE parsed
         IN  LET s1 == record_latest_score(self, score.val)
                 d == [success |-> TRUE]
             IN  IF score.val = max_score(s1)
                 THEN LET s2 == change_state(s1, DONE)
                          d1 == Put(d, "message_html", get_message_html(s2))
                          d2 == Put(d1, "allow_reset", _allow_reset(s2))
                      IN  Returned(s2, Put(d2, "state", s2.state))
                 ELSE LET s2 == change_state(s1, POST_ASSESSMENT)
                          hint == get_hint_html(s2)
                      IN  IF hint.exc # NoExc
                          THEN Raised(s2, hint.exc)
                          ELSE Returned(s2,
                                   Put(Put(d, "hint_html", hint.html),
                                       "state", s2.state))

\* save_assessment reading the state for its dict before changing it.
save_assessment_StaleState(self, get) ==
    IF self.state # ASSESSING
    THEN Returned(self, out_of_sync_error(get))
    ELSE IF ~HasKey(get, "assessment")
    THEN Raised(self, "KeyError")
    ELSE LET score == int(get.assessment)
         IN  IF score.exc # NoExc
             THEN Returned(self, [success |-> FALSE,
                                  error |-> "Non-integer score value"])
             ELSE LET s1 == record_latest_score(self, score.val)
                      d == [success |-> TRUE, state |-> s1.state]
                  IN  IF score.val = max_score(s1)
                      THEN LET s2 == change_state(s1, DONE)
                               d1 == Put(d, "message_html", get_message_html(s2))
                               d2 == Put(d1, "allow_reset", _allow_reset(s2))
                           IN  Returned(s2, d2)
                      ELSE LET s2 == change_state(s1, POST_ASSESSMENT)
                               hint == get_hint_html(s2)
                           IN  IF hint.exc # NoExc
                               THEN Raised(s2, hint.exc)
                               ELSE Returned(s2, Put(d, "hint_html", hint.html))

\* save_assessment asking _allow_reset before the change of state.
save_assessment_StaleAllowReset(self, get) ==
    IF self.state # ASSESSING
    THEN Returned(self, out_of_sync_error(get))
    ELSE IF ~HasKey(get, "assessment")
    THEN Raised(self, "KeyError")
    ELSE LET score == int(get.assessment)
         IN  IF score.exc # NoExc
             THEN Returned(self, [success |-> FALSE,
                                  error |-> "Non-integer score value"])
             ELSE LET s1 == record_latest_score(self, score.val)
                      d == [success |-> TRUE]
                  IN  IF score.val = max_score(s1)
                      THEN LET s2 == change_state(s1, DONE)
                               d1 == Put(d, "message_html", get_message_html(s2))
                               d2 == Put(d1, "allow_reset", _allow_reset(s1))
                           IN  Returned(s2, Put(d2, "state", s2.state))
                      ELSE LET s2 == change_state(s1, POST_ASSESSMENT)
                               hint == get_hint_html(s2)
                           IN  IF hint.exc # NoExc
                               THEN Raised(s2, hint.exc)
                               ELSE Returned(s2,
                                        Put(Put(d, "hint_html", hint.html),
                                            "state", s2.state))

\* save_assessment accepting a score in POST_ASSESSMENT as well.
save_assessment_AcceptsPostAssessment(self, get) ==
    IF self.state \notin {ASSESSING, POST_ASSESSMENT}
    THEN Returned(self, out_of_sync_error(get))
    ELSE IF ~HasKey(get, "assessment")
    THEN Raised(self, "KeyError")
    ELSE LET score == int(get.assessment)
         IN  IF score.exc # NoExc
             THEN Returned(self, [success |-> FALSE,
                                  error |-> "Non-integer score value"])
             ELSE LET s1 == record_latest_score(self, score.val)
                      d == [success |-> TRUE]
                  IN  IF score.val = max_score(s1)
                      THEN LET s2 == change_state(s1, DONE)
                               d1 == Put(d, "message_html", get_message_html(s2))
                               d2 == Put(d1, "allow_reset", _allow_reset(s2))
                           IN  Returned(s2, Put(d2, "state", s2.state))
                      ELSE LET s2 == change_state(s1, POST_ASSESSMENT)
                               hint == get_hint_html(s2)
                           IN  IF hint.exc # NoExc
                               THEN Raised(s2, hint.exc)
                               ELSE Returned(s2,
                                        Put(Put(d, "hint_html", hint.html),
                                            "state", s2.state))

save_assessment(self, get) ==
    IF self.state # ASSESSING
    THEN Returned(self, out_of_sync_error(get))
    ELSE IF ~HasKey(get, "assessment")
    THEN Raised(self, "KeyError")
    ELSE LET score == int(get.assessment)
         IN  IF score.exc # NoExc
             THEN Returned(self, [success |-> FALSE,
                                  error |-> "Non-integer score value"])
             ELSE LET s1 == record_latest_score(self, score.val)
                      d == [success |-> TRUE]
                  IN  IF score.val = max_score(s1)
                      THEN LET s2 == change_state(s1, DONE)
                               d1 == Put(d, "message_html", get_message_html(s2))
                               d2 == Put(d1, "allow_reset", _allow_reset(s2))
                           IN  Returned(s2, Put(d2, "state", s2.state))
                      ELSE LET s2 == change_state(s1, POST_ASSESSMENT)
                               hint == get_hint_html(s2)
                           IN  IF hint.exc # NoExc
                               THEN Raised(s2, hint.exc)
                               ELSE Returned(s2,
                                        Put(Put(d, "hint_html", hint.html),
                                            "state", s2.state))

\* save_hint accepting a hint in DONE as well.
save_hint_AcceptsDone(self, get) ==
    IF self.state \notin {POST_ASSESSMENT, DONE}
    THEN Returned(self, out_of_sync_error(get))
    ELSE IF ~HasKey(get, "hint")
    THEN Raised(self, "KeyError")
    ELSE LET s1 == record_latest_post_assessment(self, get.hint)
             s2 == change_state(s1, DONE)
         IN  Returned(s2, [success |-> TRUE,
                           message_html |-> get_message_html(s2),
                           allow_reset |-> _allow_reset(s2)])

\* save_hint without its change of state.
save_hint_NoStateChange(self, get) ==
    IF self.state # POST_ASSESSMENT
    THEN Returned(self, out_of_sync_error(get))
    ELSE IF ~HasKey(get, "hint")
    THEN Raised(self, "KeyError")
    ELSE LET s1 == record_latest_post_assessment(self, get.hint)
         IN  Returned(s1, [success |-> TRUE,
                           message_html |-> get_message_html(s1),
                           allow_reset |-> _allow_reset(s1)])

\* save_hint asking _allow_reset before the change of state.
save_hint_StaleAllowReset(self, get) ==
    IF self.state # POST_ASSESSMENT
    THEN Returned(self, out_of_sync_error(get))
    ELSE IF ~HasKey(get, "hint")
    THEN Raised(self, "KeyError")
    ELSE LET s1 == record_latest_post_assessment(self, get.hint)
             s2 == change_state(s1, DONE)
         IN  Returned(s2, [success |-> TRUE,
                           message_html |-> get_message_html(s2),
                           allow_reset |-> _allow_reset(s1)])

\* save_hint refusing the hint only in INITIAL.
save_hint_OnlyRejectsInitial(self, get) ==
    IF self.state = INITIAL
    THEN Returned(self, out_of_sync_error(get))
    ELSE IF ~HasKey(get, "hint")
    THEN Raised(self, "KeyError")
    ELSE LET s1 == record_latest_post_assessment(self, get.hint)
             s2 == change_state(s1, DONE)
         IN  Returned(s2, [success |-> TRUE,
                           message_html |-> get_message_html(s2),
                           allow_reset |-> _allow_reset(s2)])

save_hint(self, get) ==
    IF self.state # POST_ASSESSMENT
    THEN Returned(self, out_of_sync_error(get))
    ELSE IF ~HasKey(get, "hint")
    THEN Raised(self, "KeyError")
    ELSE LET s1 == record_latest_post_assessment(self, get.hint)
             s2 == change_state(s1, DONE)
         IN  Returned(s2, [success |-> TRUE,
                           message_html |-> get_message_html(s2),
                           allow_reset |-> _allow_reset(s2)])

\* The keys of the handlers table.
handlers == {"save_answer", "save_assessment", "save_post_assessment"}

\* handlers[dispatch](get, system)
CallHandler(self, dispatch, get) ==
    CASE dispatch = "save_answer" -> save_answer(self, get)
      [] dispatch = "save_assessment" -> save_assessment(self, get)
      [] dispatch = "save_post_assessment" -> save_hint(self, get)

\* handle_ajax falling back to save_answer for an unknown action name.
handle_ajax_FallsBack(self, dispatch, get) ==
    LET known == IF dispatch \in handlers THEN dispatch ELSE "save_answer"
        before == get_progress(self)
        r == CallHandler(self, known, get)
        after == get_progress(r.self)
    IN  IF r.exc # NoExc
        THEN [self |-> r.self, out |-> [exception |-> r.exc]]
        ELSE [self |-> r.self,
              out |-> Update(r.d,
                         [progress_changed |-> after # before,
                          progress_status |-> to_js_status_str(after)])]

\* handle_ajax taking its "before" progress after the handler has run.
handle_ajax_BeforeTakenLate(self, dispatch, get) ==
    IF dispatch \notin handlers
    THEN [self |-> self, out |-> [raw |-> "Error"]]
    ELSE LET r == CallHandler(self, dispatch, get)
             before == get_progress(r.self)
             after == get_progress(r.self)
         IN  IF r.exc # NoExc
             THEN [self |-> r.self, out |-> [exception |-> r.exc]]
             ELSE [self |-> r.self,
                   out |-> Update(r.d,
                              [progress_changed |-> after # before,
                               progress_status |-> to_js_status_str(after)])]

\* What handle_ajax hands back: the string 'Error' for an unknown action,
\* otherwise the JSON object of the handler's dict with the two progress
\* keys added; an exception of the handler propagates.
handle_ajax(self, dispatch, get) ==
    IF dispatch \notin handlers
    THEN [self |-> self, out |-> [raw |-> "Error"]]
    ELSE LET before == get_progress(self)
             r == CallHandler(self, dispatch, get)
             after == get_progress(r.self)
         IN  IF r.exc # NoExc
             THEN [self |-> r.self, out |-> [exception |-> r.exc]]
             ELSE [self |-> r.self,
                   out |-> Update(r.d,
                              [progress_changed |-> after # before,
                               progress_status |-> to_js_status_str(after)])]

\* ----------------------------------------------------------------- actions

Request(op, dispatch, get) == [op |-> op, dispatch |-> dispatch, get |-> get]

Init ==
    /\ state = INITIAL
    /\ attempts = 0
    /\ history = <<>>
    /\ max_attempts \in 0..MaxMaxAttempts
    /\ _max_score \in MaxScores
    /\ req = Request("__init__", "", EmptyDict)
    /\ ret = EmptyDict

\* One call of handle_ajax(dispatch, get, system) on the instance.
Dispatch(dispatch, get) ==
    \E r \in {handle_ajax(Self, dispatch, get)} :
        /\ state' = r.self.state
        /\ attempts' = r.self.attempts
        /\ history' = r.self.history
        /\ UNCHANGED <<max_attempts, _max_score>>
        /\ req' = Request("handle_ajax", dispatch, get)
        /\ ret' = r.out

SaveAnswer == \E get \in AnswerPayloads : Dispatch("save_answer", get)

SaveAssessment == \E get \in AssessmentPayloads : Dispatch("save_assessment", get)

SaveHint == \E get \in HintPayloads : Dispatch("save_post_assessment", get)

UnknownDispatch ==
    \E dispatch \in UnknownDispatches : \E get \in HintPayloads :
        Dispatch(dispatch, get)

\* One call of reset(system) on the instance.
Reset ==
    \E r \in {reset(Self)} :
        /\ state' = r.self.state
        /\ attempts' = r.self.attempts
        /\ history' = r.self.history
        /\ UNCHANGED <<max_attempts, _max_score>>
        /\ req' = Request("reset", "", EmptyDict)
        /\ ret' = r.d

Next == SaveAnswer \/ SaveAssessment \/ SaveHint \/ UnknownDispatch \/ Reset

Spec == Init /\ [][Next]_vars

\* A call that changes the instance: a successful action or reset.
Advance ==
    Next /\ (state' # state \/ attempts' # attempts \/ history' # history)

\* No call changes the instance any more: the guards of save_answer
\* (190, 199), save_assessment (226) and save_hint (259) and the reset
\* rule leave DONE with every attempt used as the one such state.
Exhausted == state = DONE /\ attempts = max_attempts

\* The workflow of a student who goes on: a call that changes the
\* instance is made as long as one is possible.  This is WF_vars(Advance)
\* written out, []<>~ENABLED <<Advance>>_vars \/ []<><<Advance>>_vars,
\* with Exhausted for ~ENABLED <<Advance>>_vars.
SpecFair == Spec /\ ([]<>Exhausted \/ []<><<Advance>>_vars)

\* The problem definition is edited between two requests: the instance is
\* built again from its persisted state (state, attempts, history) and the
\* new definition's max_attempts.
Reconfigure ==
    /\ \E m \in 0..MaxMaxAttempts : m # max_attempts /\ max_attempts' = m
    /\ UNCHANGED <<state, attempts, history, _max_score>>
    /\ req' = Request("__init__", "", EmptyDict)
    /\ ret' = EmptyDict

NextReconf == Next \/ Reconfigure

\* The workflow with definitions that change under a persisted instance.
SpecReconf == Init /\ [][NextReconf]_vars

\* ------------------------------------------------------------------- views

\* A call of a view on the instance: it reads and changes nothing.
ViewCall(op, r) ==
    /\ UNCHANGED <<state, attempts, history, max_attempts, _max_score>>
    /\ req' = Request(op, "", EmptyDict)
    /\ ret' = IF r.exc # NoExc THEN [exception |-> r.exc] ELSE [html |-> r.html]

GetHtml == ViewCall("get_html", get_html(Self))

GetRubricHtml == ViewCall("get_rubric_html", get_rubric_html(Self))

GetHintHtml == ViewCall("get_hint_html", get_hint_html(Self))

GetMessageHtml ==
    ViewCall("get_message_html", [exc |-> NoExc, html |-> get_message_html(Self)])

\* State names a damaged persisted instance state may hold.
IllegalStates == {"unknown"}

\* The instance is built from a persisted state whose state name is none
\* of the four.
Corrupt ==
    /\ state \in States
    /\ state' \in IllegalStates
    /\ UNCHANGED <<attempts, history, max_attempts, _max_score>>
    /\ req' = Request("__init__", "", EmptyDict)
    /\ ret' = EmptyDict

NextViews ==
    Next \/ GetHtml \/ GetRubricHtml \/ GetHintHtml \/ GetMessageHtml \/ Corrupt

\* The workflow with its views, over instance states that may be damaged.
SpecViews == Init /\ [][NextViews]_vars

\* ------------------------------------------------------------------ claims

\* The last call was handle_ajax with this action name.
Dispatched(r, dispatch) == r.op = "handle_ajax" /\ r.dispatch = dispatch

\* The latest record of a non-empty history.
Latest(h) == h[Len(h)]

\* The instance is left as it was.
Untouched == state' = state /\ attempts' = attempts /\ history' = history

\* The state an action requires.
FromState(dispatch) ==
    CASE dispatch = "save_answer" -> INITIAL
      [] dispatch = "save_assessment" -> ASSESSING
      [] dispatch = "save_post_assessment" -> POST_ASSESSMENT

\* C1: an action dispatched in a state other than the one it requires
\* (a repeated submit-hint in DONE included) returns success = false and
\* leaves state, attempts and history as they were.
C1_OutOfOrderRejected ==
    [][ (/\ req'.op = "handle_ajax"
         /\ req'.dispatch \in handlers
         /\ FromState(req'.dispatch) # state)
        => (/\ HasKey(ret', "success")
            /\ ret'.success = FALSE
            /\ HasKey(ret', "error")
            /\ Untouched) ]_vars

\* C1 witness: submit-hint repeated in DONE was rejected as out-of-sync.
C1_Witness ==
    /\ Dispatched(req, "save_post_assessment")
    /\ state = DONE
    /\ HasKey(Latest(history), "post_assessment")
    /\ HasKey(ret, "error")
    /\ ret.error = "The problem state got out-of-sync"

\* C2: submit-answer in INITIAL with attempts <= max_attempts and a
\* student_answer succeeds, moves to ASSESSING and appends exactly one
\* record holding that answer and nothing else; the earlier records stay.
C2_SubmitAnswerAppends ==
    [][ (/\ Dispatched(req', "save_answer")
         /\ state = INITIAL
         /\ attempts <= max_attempts
         /\ HasKey(req'.get, "student_answer"))
        => (/\ HasKey(ret', "success")
            /\ ret'.success = TRUE
            /\ state' = ASSESSING
            /\ attempts' = attempts
            /\ Len(history') = Len(history) + 1
            /\ SubSeq(history', 1, Len(history)) = history
            /\ DOMAIN Latest(history') = {"answer"}
            /\ Latest(history').answer = req'.get.student_answer) ]_vars

\* C2 witness: a second answer was accepted at attempts = max_attempts.
C2_Witness ==
    /\ Dispatched(req, "save_answer")
    /\ HasKey(ret, "success")
    /\ ret.success
    /\ state = ASSESSING
    /\ attempts = max_attempts
    /\ Len(history) = 2
    /\ history[1].answer # history[2].answer

\* The integer each well-formed assessment text of the model stands for.
IntegerTexts ==
    { [text |-> <<"3">>, val |-> 3],
      [text |-> <<"1">>, val |-> 1],
      [text |-> <<"-", "1">>, val |-> 0 - 1],
      [text |-> <<" ", "3">>, val |-> 3] }

\* The assessment texts of the model that are no integer.
NonIntegerTexts == { <<"a", "b", "c">>, <<>> }

\* C3: submit-self-score in ASSESSING with an integer text records that
\* integer as the latest record's score and moves to DONE when it equals
\* max_score and to POST_ASSESSMENT for every other integer.
C3_ScoreRecorded ==
    [][ \A t \in IntegerTexts :
        (/\ Dispatched(req', "save_assessment")
         /\ state = ASSESSING
         /\ req'.get = [assessment |-> t.text])
        => (/\ HasKey(ret', "success")
            /\ ret'.success = TRUE
            /\ Len(history') = Len(history)
            /\ \A i \in 1..(Len(history) - 1) : history'[i] = history[i]
            /\ DOMAIN Latest(history') = {"answer", "score"}
            /\ Latest(history').answer = Latest(history).answer
            /\ Latest(history').score = t.val
            /\ state' = IF t.val = _max_score THEN DONE ELSE POST_ASSESSMENT
            /\ attempts' = attempts) ]_vars

\* C3 witness: a score above max_score was recorded and led to
\* POST_ASSESSMENT.
C3_Witness ==
    /\ Dispatched(req, "save_assessment")
    /\ HasKey(ret, "success")
    /\ ret.success
    /\ state = POST_ASSESSMENT
    /\ Latest(history).score > _max_score

\* The last call was a submit-self-score refused for a non-integer text.
ValidationFailure(r, out) ==
    /\ Dispatched(r, "save_assessment")
    /\ HasKey(out, "error")
    /\ out.error = "Non-integer score value"

\* C4: submit-self-score in ASSESSING with a text that is no integer
\* returns success = false with the validation error (not the out-of-sync
\* one), stays in ASSESSING and leaves the latest score unset; a valid
\* submit-self-score right after it succeeds.
C4_NonIntegerRejected ==
    [][ /\ (/\ Dispatched(req', "save_assessment")
            /\ state = ASSESSING
            /\ HasKey(req'.get, "assessment")
            /\ req'.get.assessment \in NonIntegerTexts)
           => (/\ HasKey(ret', "success")
               /\ ret'.success = FALSE
               /\ HasKey(ret', "error")
               /\ ret'.error = "Non-integer score value"
               /\ ret'.error # out_of_sync_error(req'.get).error
               /\ state' = ASSESSING
               /\ Untouched
               /\ ~HasKey(Latest(history'), "score"))
        /\ (/\ ValidationFailure(req, ret)
            /\ Dispatched(req', "save_assessment")
            /\ \E t \in IntegerTexts : req'.get = [assessment |-> t.text])
           => (/\ HasKey(ret', "success")
               /\ ret'.success = TRUE
               /\ HasKey(Latest(history'), "score")) ]_vars

\* C4 witness: the text "abc" was refused in ASSESSING.
C4_Witness ==
    /\ ValidationFailure(req, ret)
    /\ req.get.assessment = <<"a", "b", "c">>
    /\ state = ASSESSING
    /\ ~HasKey(Latest(history), "score")

\* C5: submit-hint in POST_ASSESSMENT with a hint succeeds, moves to DONE
\* and sets the latest record's hint to the text, leaving that record's
\* answer and score and every earlier record as they were.
C5_HintRecorded ==
    [][ (/\ Dispatched(req', "save_post_assessment")
         /\ state = POST_ASSESSMENT
         /\ HasKey(req'.get, "hint"))
        => (/\ HasKey(ret', "success")
            /\ ret'.success = TRUE
            /\ state' = DONE
            /\ attempts' = attempts
            /\ Len(history') = Len(history)
            /\ \A i \in 1..(Len(history) - 1) : history'[i] = history[i]
            /\ DOMAIN Latest(history') = {"answer", "score", "post_assessment"}
            /\ Latest(history').post_assessment = req'.get.hint
            /\ Latest(history').answer = Latest(history).answer
            /\ Latest(history').score = Latest(history).score) ]_vars

\* C5 witness: a hint was recorded on the second record.
C5_Witness ==
    /\ Dispatched(req, "save_post_assessment")
    /\ HasKey(ret, "success")
    /\ ret.success
    /\ state = DONE
    /\ Len(history) = 2
    /\ Latest(history).post_assessment = "try again"

\* C6: the allow_reset flag a handler returns is true exactly when the
\* state it leaves is DONE with attempts < max_attempts, every handler
\* that reaches DONE returns it, and a reset is carried out exactly when
\* state = DONE and attempts < max_attempts.
C6_AllowReset ==
    [][ /\ HasKey(ret', "allow_reset")
           => (ret'.allow_reset <=> (state' = DONE /\ attempts' < max_attempts'))
        /\ (/\ req'.op = "handle_ajax"
            /\ HasKey(ret', "success")
            /\ ret'.success
            /\ state' = DONE)
           => HasKey(ret', "allow_reset")
        /\ req'.op = "reset"
           => /\ ret'.success <=> (state = DONE /\ attempts < max_attempts)
              /\ ret'.success <=> _allow_reset(Self)
              /\ ~ret'.success => Untouched ]_vars

\* C6 witness: submit-hint reached DONE and returned allow_reset = true.
C6_Witness ==
    /\ Dispatched(req, "save_post_assessment")
    /\ HasKey(ret, "allow_reset")
    /\ ret.allow_reset
    /\ state = DONE
    /\ attempts < max_attempts

\* C7: a permitted reset sets the state to INITIAL, adds exactly 1 to
\* attempts and keeps the history; the successful submit-answer after it
\* appends a record and keeps every earlier one.
C7_ResetKeepsHistory ==
    [][ /\ (req'.op = "reset" /\ ret'.success)
           => (/\ state' = INITIAL
               /\ attempts' = attempts + 1
               /\ history' = history)
        /\ (/\ req.op = "reset"
            /\ ret.success
            /\ Dispatched(req', "save_answer")
            /\ HasKey(ret', "success")
            /\ ret'.success)
           => (/\ history # <<>>
               /\ Len(history') = Len(history) + 1
               /\ SubSeq(history', 1, Len(history)) = history) ]_vars

\* C7 witness: after a reset a second record was appended.
C7_Witness ==
    /\ Dispatched(req, "save_answer")
    /\ HasKey(ret, "success")
    /\ ret.success
    /\ attempts = 1
    /\ Len(history) = 2
    /\ HasKey(history[1], "score")

C9_UnknownActionRejected ==
    [][ (req'.op = "handle_ajax" /\ req'.dispatch \notin handlers)
        => (/\ ret' = [raw |-> "Error"]
            /\ Untouched) ]_vars

\* C9 witness: an unknown action name carrying a hint was rejected in
\* POST_ASSESSMENT.
C9_Witness ==
    /\ req.op = "handle_ajax"
    /\ req.dispatch = "save_hint"
    /\ HasKey(req.get, "hint")
    /\ state = POST_ASSESSMENT
    /\ HasKey(ret, "raw")

\* The last call was a known action that returned its envelope.
KnownReturned ==
    /\ req.op = "handle_ajax"
    /\ req.dispatch \in handlers
    /\ ~HasKey(ret, "exception")

RequiredKey(dispatch) ==
    CASE dispatch = "save_answer" -> "student_answer"
      [] dispatch = "save_assessment" -> "assessment"
      [] dispatch = "save_post_assessment" -> "hint"

\* C11: no dispatch raises, whatever the action name and the payload; a
\* known action whose payload lacks the key it reads ends as an envelope
\* with success = false and an error.
C11_NeverRaises ==
    req.op = "handle_ajax"
    => /\ ~HasKey(ret, "exception")
       /\ (/\ req.dispatch \in handlers
           /\ ~HasKey(req.get, RequiredKey(req.dispatch)))
          => (/\ HasKey(ret, "success")
              /\ ret.success = FALSE
              /\ HasKey(ret, "error"))

\* The instance of the end-to-end scenario, with this state, attempt
\* count and history.
ScenarioAt(s, a, h) ==
    /\ max_attempts = 2
    /\ _max_score = 3
    /\ state = s
    /\ attempts = a
    /\ history = h

\* The call made is this action with this payload, and it succeeded.
Succeeded(r, out, dispatch, get) ==
    /\ r = Request("handle_ajax", dispatch, get)
    /\ HasKey(out, "success")
    /\ out.success = TRUE

\* The records of the scenario.
FooRecord == [answer |-> "foo"]

FooScored == [answer |-> "foo", score |-> 3]

BarRecord == [answer |-> "bar"]

BarScored == [answer |-> "bar", score |-> 1]

BarHinted == [answer |-> "bar", score |-> 1, post_assessment |-> "try again"]

\* C12: with max_attempts = 2 and max_score = 3, from INITIAL with
\* attempts = 0 and no history, submit-answer "foo", submit-self-score
\* "3", reset, submit-answer "bar", submit-self-score "1", submit-hint
\* "try again" each succeed and lead through ASSESSING, DONE (with
\* allow_reset = true), INITIAL (attempts = 1), ASSESSING,
\* POST_ASSESSMENT and DONE, ending with the records {foo, 3, no hint}
\* and {bar, 1, "try again"}.
C12_Scenario ==
    [][ /\ (/\ ScenarioAt(INITIAL, 0, <<>>)
            /\ Dispatched(req', "save_answer")
            /\ req'.get = [student_answer |-> "foo"])
           => (/\ Succeeded(req', ret', "save_answer", req'.get)
               /\ ScenarioAt(ASSESSING, 0, <<FooRecord>>)')
        /\ (/\ ScenarioAt(ASSESSING, 0, <<FooRecord>>)
            /\ Dispatched(req', "save_assessment")
            /\ req'.get = [assessment |-> <<"3">>])
           => (/\ Succeeded(req', ret', "save_assessment", req'.get)
               /\ HasKey(ret', "allow_reset")
               /\ ret'.allow_reset = TRUE
               /\ HasKey(ret', "message_html")
               /\ ret'.message_html # NoHtml
               /\ ScenarioAt(DONE, 0, <<FooScored>>)')
        /\ (/\ ScenarioAt(DONE, 0, <<FooScored>>)
            /\ req'.op = "reset")
           => (/\ ret'.success = TRUE
               /\ ScenarioAt(INITIAL, 1, <<FooScored>>)')
        /\ (/\ ScenarioAt(INITIAL, 1, <<FooScored>>)
            /\ Dispatched(req', "save_answer")
            /\ req'.get = [student_answer |-> "bar"])
           => (/\ Succeeded(req', ret', "save_answer", req'.get)
               /\ ScenarioAt(ASSESSING, 1, <<FooScored, BarRecord>>)')
        /\ (/\ ScenarioAt(ASSESSING, 1, <<FooScored, BarRecord>>)
            /\ Dispatched(req', "save_assessment")
            /\ req'.get = [assessment |-> <<"1">>])
           => (/\ Succeeded(req', ret', "save_assessment", req'.get)
               /\ ScenarioAt(POST_ASSESSMENT, 1, <<FooScored, BarScored>>)')
        /\ (/\ ScenarioAt(POST_ASSESSMENT, 1, <<FooScored, BarScored>>)
            /\ Dispatched(req', "save_post_assessment")
            /\ req'.get = [hint |-> "try again"])
           => (/\ Succeeded(req', ret', "save_post_assessment", req'.get)
               /\ ScenarioAt(DONE, 1, <<FooScored, BarHinted>>)') ]_vars

\* C12 witness: the scenario has run to its end.
C12_Witness ==
    /\ ScenarioAt(DONE, 1, <<FooScored, BarHinted>>)
    /\ Succeeded(req, ret, "save_post_assessment", [hint |-> "try again"])

\* The status of the progress of an instance in this state with this
\* attempt count.
StatusOf(s, a) ==
    IF s = DONE THEN "done"
    ELSE IF s # INITIAL \/ a > 0 THEN "in_progress"
    ELSE "none"

\* C13: the envelope of every known action that returns carries
\* progress_changed, true exactly when the progress after the call
\* differs from the progress before it, and progress_status, the status
\* of the progress after the call; a call that changes nothing reports
\* progress_changed = false.
C13_ProgressReported ==
    [][ (/\ req'.op = "handle_ajax"
         /\ req'.dispatch \in handlers
         /\ ~HasKey(ret', "exception"))
        => (/\ HasKey(ret', "progress_changed")
            /\ HasKey(ret', "progress_status")
            /\ ret'.progress_changed
               <=> (get_progress(Self') # get_progress(Self))
            /\ ret'.progress_changed
               <=> (StatusOf(state', attempts') # StatusOf(state, attempts))
            /\ ret'.progress_status = StatusOf(state', attempts')
            /\ Untouched => ret'.progress_changed = FALSE) ]_vars

\* C13 witness: a submit-self-score that reached DONE reported a changed
\* progress with the status "done".
C13_Witness ==
    /\ Dispatched(req, "save_assessment")
    /\ HasKey(ret, "progress_changed")
    /\ ret.progress_changed
    /\ ret.progress_status = "done"
    /\ state = DONE

\* C14: every record of the history has an answer, has a score only if
\* it has an answer, and has a hint only if it has a score.
C14_RecordShape ==
    \A i \in 1..Len(history) :
        /\ HasKey(history[i], "answer")
        /\ HasKey(history[i], "score") => HasKey(history[i], "answer")
        /\ HasKey(history[i], "post_assessment") => HasKey(history[i], "score")
        /\ DOMAIN history[i] \subseteq {"answer", "score", "post_assessment"}

\* C14 witness: a history holding a record with a hint, a record with a
\* score and no hint, and a record with an answer only.
C14_Witness ==
    /\ Len(history) = 3
    /\ \E i \in 1..2 : HasKey(history[i], "post_assessment")
    /\ \E i \in 1..2 : DOMAIN history[i] = {"answer", "score"}
    /\ DOMAIN history[3] = {"answer"}

\* The call made is a successful one of this action.
SuccessOf(r, out, dispatch) ==
    /\ Dispatched(r, dispatch)
    /\ HasKey(out, "success")
    /\ out.success = TRUE

\* C15: the history only grows, by records that hold an answer alone; an
\* answer never changes; a score is written only by a successful
\* submit-self-score and a hint only by a successful submit-hint, and
\* neither changes once set; only the latest record is ever modified.
C15_AppendOnlyWriteOnce ==
    [][ /\ Len(history') >= Len(history)
        /\ \A i \in (Len(history) + 1)..Len(history') :
               DOMAIN history'[i] = {"answer"}
        /\ \A i \in 1..Len(history) :
            /\ HasKey(history'[i], "answer")
            /\ history'[i].answer = history[i].answer
            /\ HasKey(history[i], "score")
               => (/\ HasKey(history'[i], "score")
                   /\ history'[i].score = history[i].score)
            /\ HasKey(history[i], "post_assessment")
               => (/\ HasKey(history'[i], "post_assessment")
                   /\ history'[i].post_assessment = history[i].post_assessment)
            /\ (HasKey(history'[i], "score") /\ ~HasKey(history[i], "score"))
               => SuccessOf(req', ret', "save_assessment")
            /\ (/\ HasKey(history'[i], "post_assessment")
                /\ ~HasKey(history[i], "post_assessment"))
               => SuccessOf(req', ret', "save_post_assessment")
            /\ history'[i] # history[i] => i = Len(history) ]_vars

\* C15 witness: the latest of three records got its score while the two
\* before it, one with a hint, stayed.
C15_Witness ==
    /\ SuccessOf(req, ret, "save_assessment")
    /\ Len(history) = 3
    /\ HasKey(history[3], "score")
    /\ HasKey(history[1], "post_assessment")
    /\ history[2].answer # history[3].answer

\* The rubric section as stated for the current state: hidden in INITIAL,
\* editable in ASSESSING, read-only in POST_ASSESSMENT and DONE.
RubricAsStated(h) ==
    CASE state = INITIAL -> h = NoHtml
      [] state = ASSESSING ->
            /\ h.template = "self_assessment_rubric.html"
            /\ h.context.read_only = FALSE
      [] state \in {POST_ASSESSMENT, DONE} ->
            /\ h.template = "self_assessment_rubric.html"
            /\ h.context.read_only = TRUE

\* The hint section as stated for the current state: hidden in INITIAL
\* and ASSESSING, editable and empty in POST_ASSESSMENT, read-only with
\* the latest record's hint (empty when unset) in DONE.
HintAsStated(h) ==
    CASE state \in {INITIAL, ASSESSING} -> h = NoHtml
      [] state = POST_ASSESSMENT ->
            /\ h.template = "self_assessment_hint.html"
            /\ h.context.read_only = FALSE
            /\ h.context.hint = ""
      [] state = DONE ->
            /\ h.template = "self_assessment_hint.html"
            /\ h.context.read_only = TRUE
            /\ h.context.hint =
                  IF HasKey(Latest(history), "post_assessment")
                  THEN Latest(history).post_assessment
                  ELSE ""

\* The submit-confirmation message is shown exactly in DONE.
MessageAsStated(h) ==
    /\ (h # NoHtml) <=> (state = DONE)
    /\ h # NoHtml => h.template = "save_message"

\* C16: in each of the four states the views are as the state prescribes:
\* the rubric, the hint and the message, each called alone or through the
\* full view.
C16_ViewsByState ==
    state \in States
    => /\ req.op = "get_rubric_html"
          => (HasKey(ret, "html") /\ RubricAsStated(ret.html))
       /\ req.op = "get_hint_html"
          => (HasKey(ret, "html") /\ HintAsStated(ret.html))
       /\ req.op = "get_message_html"
          => (HasKey(ret, "html") /\ MessageAsStated(ret.html))
       /\ req.op = "get_html"
          => (/\ HasKey(ret, "html")
              /\ RubricAsStated(ret.html.context.initial_rubric)
              /\ HintAsStated(ret.html.context.initial_hint)
              /\ MessageAsStated(ret.html.context.initial_message))

\* C16 witness: the full view in DONE shows the recorded hint read-only
\* and the message.
C16_Witness ==
    /\ req.op = "get_html"
    /\ state = DONE
    /\ HasKey(ret, "html")
    /\ ret.html.context.initial_hint.context.hint = "try again"
    /\ ret.html.context.initial_hint.context.read_only
    /\ ret.html.context.initial_rubric.context.read_only
    /\ ret.html.context.initial_message # NoHtml

\* The names of the view operations.
ViewOps == {"get_html", "get_rubric_html", "get_hint_html", "get_message_html"}

\* C17: every view called with a state that is none of the four raises.
C17_ViewsRaiseOnIllegalState ==
    (req.op \in ViewOps /\ state \notin States) => HasKey(ret, "exception")

\* C18: from attempts = 0, attempts never exceeds max_attempts, so
\* submit-answer is never refused for the attempt count.
C18_AttemptsWithinLimit ==
    /\ 0 <= attempts
    /\ attempts <= max_attempts
    /\ ~(HasKey(ret, "error") /\ ret.error = "Too many attempts.")

\* C18 witness: at the last attempt an answer was accepted.
C18_Witness ==
    /\ SuccessOf(req, ret, "save_answer")
    /\ attempts = max_attempts
    /\ attempts = 2

\* A record as a finished cycle leaves it: a score, and a hint exactly
\* when the score is not max_score.
DoneShape(rec) ==
    /\ HasKey(rec, "score")
    /\ HasKey(rec, "post_assessment") <=> (rec.score # _max_score)

\* C19: the state and the latest record agree. ASSESSING: a latest record
\* without score and hint. POST_ASSESSMENT: a score other than max_score
\* and no hint. DONE: a score, and a hint exactly when the score is not
\* max_score. INITIAL: no history, or a latest record as DONE leaves it.
\* The number of records is attempts + 1 outside INITIAL and attempts in
\* INITIAL.
C19_StateMatchesLatest ==
    /\ state \in States
    /\ state = ASSESSING
       => (/\ history # <<>>
           /\ ~HasKey(Latest(history), "score")
           /\ ~HasKey(Latest(history), "post_assessment"))
    /\ state = POST_ASSESSMENT
       => (/\ history # <<>>
           /\ HasKey(Latest(history), "score")
           /\ Latest(history).score # _max_score
           /\ ~HasKey(Latest(history), "post_assessment"))
    /\ state = DONE => (history # <<>> /\ DoneShape(Latest(history)))
    /\ state = INITIAL => (history = <<>> \/ DoneShape(Latest(history)))
    /\ Len(history) = IF state = INITIAL THEN attempts ELSE attempts + 1

\* C19 witness: DONE on the second record, reached without a hint, the
\* first record holding one.
C19_Witness ==
    /\ state = DONE
    /\ attempts = 1
    /\ Len(history) = 2
    /\ ~HasKey(history[2], "post_assessment")
    /\ HasKey(history[1], "post_assessment")

\* C20: at most max_attempts resets and max_attempts + 1 records occur;
\* once DONE with attempts = max_attempts, every action and every reset
\* is refused and state, attempts and history never change again, so
\* that no Advance step is enabled there; in every other state one is
\* enabled, and a student who goes on reaches that state and stays.
C20_Terminates ==
    /\ [](attempts <= max_attempts /\ Len(history) <= max_attempts + 1)
    /\ [](~Exhausted => ENABLED <<Advance>>_vars)
    /\ [][ /\ (req'.op = "reset" /\ ret'.success) => attempts' = attempts + 1
           /\ Len(history') <= Len(history) + 1
           /\ Exhausted
              => (/\ Untouched
                  /\ Exhausted'
                  /\ HasKey(ret', "success") => ret'.success = FALSE
                  /\ (~HasKey(ret', "success")) => HasKey(ret', "raw")) ]_vars
    /\ <>[]Exhausted

\* C20 witness: every attempt is used, three records are kept, and a
\* further submit-answer was refused.
C20_Witness ==
    /\ Exhausted
    /\ attempts = 2
    /\ Len(history) = 3
    /\ Dispatched(req, "save_answer")
    /\ HasKey(ret, "success")
    /\ ret.success = FALSE

==========================================================================
